---- MODULE Spec2Model ----
(***************************************************************************)
(* Model of clashui (src/src/main.rs): the App state driven by             *)
(* process_key, with the control API answering every call                  *)
(* nondeterministically (any snapshot, or a failure).                      *)
(*                                                                         *)
(* Rust indices are 0-based; sequences here are 1-based, so v[i] in the    *)
(* source is v[i + 1] here and "i < v.len()" is "i < Len(v)".              *)
(* Option<T> is a sequence of length at most one: None, Some(v).           *)
(* A panic (slice index out of range) ends the process: status becomes     *)
(* "crashed" with the assignments made before the panic kept.              *)
(***************************************************************************)
EXTENDS Integers, Sequences, FiniteSets, TLC

\* Bounds of the model.
MaxProxies == 2   \* entries of the proxy collection, named 1..MaxProxies
MaxMembers == 2   \* longest member list ("all") of a group

VARIABLES page, focus, general_state, proxies_state, status, last, calls

vars == <<page, focus, general_state, proxies_state, status, last, calls>>

----------------------------------------------------------------------------
\* Option<T>

None == <<>>
Some(v) == <<v>>
IsSome(o) == Len(o) = 1
Unwrap(o) == o[1]

----------------------------------------------------------------------------
\* Fixed tables

\* App::new: the five routes, in order
routes == <<"General", "Proxies", "Rules", "Connections", "Logs">>

\* GeneralState::new: the three modes, in order
modes == <<"global", "rule", "direct">>

----------------------------------------------------------------------------
\* What the control API may answer.  Names are numbers, ordered by <.

ProxyNames == 1..MaxProxies

\* The member lists a group may report: k names in descending (unsorted)
\* order, for every length k up to MaxMembers.
AllLists == { [i \in 1..k |-> k + 1 - i] : k \in 0..MaxMembers }

\* struct Proxy { all: Option<Vec<String>>, name, now }.  "now" is read by
\* the renderer's styling only and is left out.
Proxy(n, a) == [name |-> n, all |-> a]

AllOptions == {None} \cup { Some(l) : l \in AllLists }

\* HashMap<String, Proxy>, each entry keyed by its own name.  An entry
\* without "all" is a leaf, so collections with fewer groups are covered.
ProxyMaps ==
    { [k \in ProxyNames |-> Proxy(k, f[k])] : f \in [ProxyNames -> AllOptions] }

\* HttpClient::proxies().ok()
ProxiesResponses == {None} \cup { Some(m) : m \in ProxyMaps }

\* HttpClient::configs().ok(): the mode the server reports
ConfigsResponses == {None} \cup { Some([mode |-> m]) : m \in {"global", "rule", "direct"} }

\* Result of a write call (update_config, update_proxy): Ok or Err
WriteResults == {TRUE, FALSE}

\* One control-API call as observed on the wire, with its outcome.
Call(op, arg, res) == [op |-> op, arg |-> arg, res |-> res]

----------------------------------------------------------------------------
\* every entry taken for a group, leaves included
is_provider_any(p) == TRUE

\* Proxy::is_provider
is_provider(p) == IsSome(p.all)

\* HashMap::values(): iteration order is unspecified; the model iterates in
\* descending key order, so the sort below has work to do.
RECURSIVE values(_)
values(m) ==
    IF DOMAIN m = {} THEN <<>>
    ELSE LET k == CHOOSE x \in DOMAIN m : \A y \in DOMAIN m : y <= x
         IN <<m[k]>> \o values([x \in DOMAIN m \ {k} |-> m[x]])

\* providers.sort_by(|x, y| x.name.cmp(&y.name)): stable insertion sort
RECURSIVE sort_by_name(_)
sort_by_name(seq) ==
    IF seq = <<>> THEN <<>>
    ELSE LET h == Head(seq)
             rest == sort_by_name(Tail(seq))
             lo == SelectSeq(rest, LAMBDA q : q.name < h.name)
             hi == SelectSeq(rest, LAMBDA q : ~(q.name < h.name))
         IN lo \o <<h>> \o hi

\* the member names left in the order the server sent them
sort_unsorted(seq) == seq

\* proxies.sort() on the member names
RECURSIVE sort(_)
sort(seq) ==
    IF seq = <<>> THEN <<>>
    ELSE LET h == Head(seq)
             rest == sort(Tail(seq))
             lo == SelectSeq(rest, LAMBDA q : q < h)
             hi == SelectSeq(rest, LAMBDA q : ~(q < h))
         IN lo \o <<h>> \o hi

\* ProxiesState::providers
providers(s) ==
    sort_by_name(
        IF IsSome(s.proxies)
        THEN SelectSeq(values(Unwrap(s.proxies)), is_provider)
        ELSE <<>>)

\* provider.all.as_ref().map(|v| v.len()).unwrap_or_default()
all_len(p) == IF IsSome(p.all) THEN Len(Unwrap(p.all)) ELSE 0

----------------------------------------------------------------------------
\* ProxiesState.  Every operation yields [st, panic]: the state it leaves
\* and whether it panicked on an out-of-range index.

\* ProxiesState::default
ProxiesDefault ==
    [proxies |-> None, provider |-> 0, proxy_index |-> 0,
     proxies_len |-> 0, providers_len |-> 0]

Done(s) == [st |-> s, panic |-> FALSE]
Panic(s) == [st |-> s, panic |-> TRUE]

\* a failed fetch that zeroes the indices but keeps the cached counts
fetch_failed_stale(s) ==
    Done([s EXCEPT !.provider = 0, !.proxy_index = 0])

\* ProxiesState::fetch_data, the branch taken when self.proxies is None
fetch_failed(s) ==
    Done([s EXCEPT !.provider = 0, !.proxy_index = 0,
                   !.providers_len = 0, !.proxies_len = 0])

\* fetch_succeeded with the test made on the count of the new snapshot
fetch_succeeded_fresh(s) ==
    LET s2 == [s EXCEPT !.provider = 0]
        ps == providers(s2)
        len == Len(ps)
    IN IF len # 0
       THEN Done([s2 EXCEPT !.proxies_len = all_len(ps[s2.provider + 1]),
                            !.proxy_index = 0,
                            !.providers_len = len])
       ELSE Done([s2 EXCEPT !.proxies_len = 0,
                            !.proxy_index = 0,
                            !.providers_len = len])

\* ProxiesState::fetch_data, the branch taken when self.proxies is Some.
\* The test on providers_len reads the count of the previous snapshot.
fetch_succeeded(s) ==
    LET s2 == [s EXCEPT !.provider = 0]
        ps == providers(s2)
        len == Len(ps)
    IN IF s2.providers_len # 0
       THEN IF s2.provider < Len(ps)
            THEN Done([s2 EXCEPT !.proxies_len = all_len(ps[s2.provider + 1]),
                                 !.proxy_index = 0,
                                 !.providers_len = len])
            ELSE Panic(s2)
       ELSE Done([s2 EXCEPT !.proxies_len = 0,
                            !.proxy_index = 0,
                            !.providers_len = len])

\* ProxiesState::fetch_data, given what http.proxies().ok() returned
proxies_fetch_data(s, res) ==
    LET s1 == [s EXCEPT !.proxies = res]
    IN IF ~IsSome(s1.proxies) THEN fetch_failed(s1) ELSE fetch_succeeded(s1)

\* next_tab without the recomputation of proxies_len
next_tab_stale(s) ==
    IF s.providers_len = 0
    THEN Done([s EXCEPT !.provider = 0])
    ELSE Done([s EXCEPT !.provider = (s.provider + 1) % s.providers_len,
                        !.proxy_index = 0])

\* ProxiesState::next_tab
next_tab(s) ==
    IF s.providers_len = 0
    THEN Done([s EXCEPT !.provider = 0])
    ELSE LET s1 == [s EXCEPT !.provider = (s.provider + 1) % s.providers_len]
             ps == providers(s1)
         IN IF s1.provider < Len(ps)
            THEN Done([s1 EXCEPT !.proxies_len = all_len(ps[s1.provider + 1]),
                                 !.proxy_index = 0])
            ELSE Panic(s1)

\* previous_tab that stops at the first group instead of wrapping
previous_tab_saturating(s) ==
    IF s.providers_len = 0
    THEN Done([s EXCEPT !.provider = 0])
    ELSE LET s1 == [s EXCEPT !.provider =
                        IF s.provider = 0 THEN 0 ELSE s.provider - 1]
             ps == providers(s1)
         IN IF s1.provider < Len(ps)
            THEN Done([s1 EXCEPT !.proxies_len = all_len(ps[s1.provider + 1]),
                                 !.proxy_index = 0])
            ELSE Panic(s1)

\* ProxiesState::previous_tab
previous_tab(s) ==
    IF s.providers_len = 0
    THEN Done([s EXCEPT !.provider = 0])
    ELSE LET s1 == [s EXCEPT !.provider =
                        (s.provider + s.providers_len - 1) % s.providers_len]
             ps == providers(s1)
         IN IF s1.provider < Len(ps)
            THEN Done([s1 EXCEPT !.proxies_len = all_len(ps[s1.provider + 1]),
                                 !.proxy_index = 0])
            ELSE Panic(s1)

\* ProxiesState::next_proxy
next_proxy(s) ==
    IF s.proxies_len = 0
    THEN Done([s EXCEPT !.proxy_index = 0])
    ELSE Done([s EXCEPT !.proxy_index = (s.proxy_index + 1) % s.proxies_len])

\* ProxiesState::previous_proxy
previous_proxy(s) ==
    IF s.proxies_len = 0
    THEN Done([s EXCEPT !.proxy_index = 0])
    ELSE Done([s EXCEPT !.proxy_index =
                   (s.proxy_index + s.proxies_len - 1) % s.proxies_len])

\* ProxiesState::select_proxy, lines 301-320: the (group name, member name)
\* the cursor resolves to, None where the code returns early
resolve(s) ==
    LET ps == providers(s)
    IN IF ~(s.provider < Len(ps)) THEN None
       ELSE LET provider == ps[s.provider + 1]
            IN IF ~IsSome(provider.all) THEN None
               ELSE LET proxies == sort(Unwrap(provider.all))
                    IN IF ~(s.proxy_index < Len(proxies)) THEN None
                       ELSE Some(<<provider.name, proxies[s.proxy_index + 1]>>)

\* restore without the bound test on the member index
restore_unchecked(s, provider_index, proxy_index) ==
    IF s.providers_len = 0 \/ s.proxies_len = 0 THEN s
    ELSE LET s1 == IF provider_index < s.providers_len
                   THEN [s EXCEPT !.provider = provider_index]
                   ELSE s
         IN [s1 EXCEPT !.proxy_index = proxy_index]

\* ProxiesState::select_proxy, lines 325-333: put the pre-call indices back
restore(s, provider_index, proxy_index) ==
    IF s.providers_len = 0 \/ s.proxies_len = 0 THEN s
    ELSE LET s1 == IF provider_index < s.providers_len
                   THEN [s EXCEPT !.provider = provider_index]
                   ELSE s
         IN IF proxy_index < s1.proxies_len
            THEN [s1 EXCEPT !.proxy_index = proxy_index]
            ELSE s1

\* select_proxy without the test on the counts at its head
select_proxy_unguarded(s, put, res) ==
    LET r == resolve(s)
    IN IF ~IsSome(r)
       THEN [st |-> s, panic |-> FALSE, calls |-> <<>>]
       ELSE LET f == proxies_fetch_data(s, res)
                cl == <<Call("PUT /proxies", Unwrap(r), put),
                        Call("GET /proxies", <<>>, res)>>
            IN IF f.panic
               THEN [st |-> f.st, panic |-> TRUE, calls |-> cl]
               ELSE [st |-> restore(f.st, s.provider, s.proxy_index),
                     panic |-> FALSE, calls |-> cl]

\* ProxiesState::select_proxy, given the outcome of update_proxy (put) and
\* of the refetch (res).  Yields the calls it issued as well.
select_proxy(s, put, res) ==
    IF s.providers_len = 0 \/ s.proxies_len = 0
    THEN [st |-> s, panic |-> FALSE, calls |-> <<>>]
    ELSE LET r == resolve(s)
         IN IF ~IsSome(r)
            THEN [st |-> s, panic |-> FALSE, calls |-> <<>>]
            ELSE LET f == proxies_fetch_data(s, res)
                     cl == <<Call("PUT /proxies", Unwrap(r), put),
                             Call("GET /proxies", <<>>, res)>>
                 IN IF f.panic
                    THEN [st |-> f.st, panic |-> TRUE, calls |-> cl]
                    ELSE [st |-> restore(f.st, s.provider, s.proxy_index),
                          panic |-> FALSE, calls |-> cl]

----------------------------------------------------------------------------
\* GeneralState (modes is the fixed table above)

\* GeneralState::new
GeneralNew == [index |-> 0, config |-> None]

\* a fetch that also moves the cursor onto the mode the server reports
general_fetch_data_sync(g, res) ==
    IF IsSome(res)
    THEN [g EXCEPT !.config = res,
                   !.index = CHOOSE i \in 0..2 : modes[i + 1] = Unwrap(res).mode]
    ELSE [g EXCEPT !.config = res]

\* GeneralState::fetch_data, given what http.configs().ok() returned
general_fetch_data(g, res) == [g EXCEPT !.config = res]

\* GeneralState::next_mode
next_mode(g) == [g EXCEPT !.index = (g.index + 1) % 3]

\* GeneralState::previous_mode
previous_mode(g) == [g EXCEPT !.index = (g.index + 3 - 1) % 3]

\* select_mode that refetches only when update_config succeeded
select_mode_checked(g, patch, res) ==
    IF g.index < Len(modes)
    THEN IF patch
         THEN [st |-> general_fetch_data(g, res), panic |-> FALSE,
               calls |-> <<Call("PATCH /configs", <<modes[g.index + 1]>>, patch),
                           Call("GET /configs", <<>>, res)>>]
         ELSE [st |-> g, panic |-> FALSE,
               calls |-> <<Call("PATCH /configs", <<modes[g.index + 1]>>, patch)>>]
    ELSE [st |-> g, panic |-> TRUE, calls |-> <<>>]

\* GeneralState::select_mode, given the outcome of update_config (patch) and
\* of the refetch (res)
select_mode(g, patch, res) ==
    IF g.index < Len(modes)
    THEN [st |-> general_fetch_data(g, res), panic |-> FALSE,
          calls |-> <<Call("PATCH /configs", <<modes[g.index + 1]>>, patch),
                      Call("GET /configs", <<>>, res)>>]
    ELSE [st |-> g, panic |-> TRUE, calls |-> <<>>]

----------------------------------------------------------------------------
\* App and the event loop

\* App::route
route(pg) == IF pg < Len(routes) THEN Some(routes[pg + 1]) ELSE None

\* render (render_general: modes[state.index]; render_proxies:
\* providers[state.provider] once providers_len is nonzero): TRUE when the
\* draw at the top of the loop panics
render_panics ==
    LET r == IF IsSome(route(page)) THEN Unwrap(route(page)) ELSE "General"
    IN CASE r = "General" -> ~(general_state.index < Len(modes))
         [] r = "Proxies" ->
                /\ proxies_state.providers_len # 0
                /\ ~(proxies_state.provider < Len(providers(proxies_state)))
         [] OTHER -> FALSE

\* What one handled input leaves behind: the key, the new fields, whether a
\* panic ended the process, and the API calls the handler issued.
Step(key, pg, fc, gs, ps, panic, cl) ==
    /\ last' = key
    /\ page' = pg
    /\ focus' = fc
    /\ general_state' = gs
    /\ proxies_state' = ps
    /\ status' = IF panic THEN "crashed" ELSE "running"
    /\ calls' = cl

\* App::fetch_data, with the page and focus the caller has just set
app_fetch_data(key, pg, fc) ==
    IF ~IsSome(route(pg))
    THEN Step(key, pg, fc, general_state, proxies_state, FALSE, <<>>)
    ELSE CASE Unwrap(route(pg)) = "General" ->
                \E res \in ConfigsResponses :
                    Step(key, pg, fc, general_fetch_data(general_state, res),
                         proxies_state, FALSE,
                         <<Call("GET /configs", <<>>, res)>>)
           [] Unwrap(route(pg)) = "Proxies" ->
                \E res \in ProxiesResponses :
                    \E f \in {proxies_fetch_data(proxies_state, res)} :
                       Step(key, pg, fc, general_state, f.st, f.panic,
                            <<Call("GET /proxies", <<>>, res)>>)
           [] OTHER ->
                Step(key, pg, fc, general_state, proxies_state, FALSE, <<>>)

\* navigate that moves the page and fetches nothing
navigate_passive(key, n) ==
    Step(key, n % Len(routes), focus, general_state, proxies_state, FALSE, <<>>)

\* App::navigate
navigate(key, n) == app_fetch_data(key, n % Len(routes), focus)

\* App::next_menu, the new page
next_page(pg) == (pg + 1) % Len(routes)

\* App::previous_menu, the new page
previous_page(pg) == (pg + Len(routes) - 1) % Len(routes)

\* App::next_menu
next_menu(key) == app_fetch_data(key, next_page(page), focus)

\* App::previous_menu
previous_menu(key) == app_fetch_data(key, previous_page(page), focus)

\* run_app: one turn of the loop draws, then handles one input (A)
Loop(A) ==
    /\ status = "running"
    /\ IF render_panics
       THEN /\ status' = "crashed"
            /\ UNCHANGED <<page, focus, general_state, proxies_state, last, calls>>
       ELSE A

\* A handler that touches neither submodel nor the API
Local(key, fc) ==
    Step(key, page, fc, general_state, proxies_state, FALSE, <<>>)

\* App::new, before the first input
Init ==
    /\ page = 0
    /\ focus = "Menu"
    /\ general_state = GeneralNew
    /\ proxies_state = ProxiesDefault
    /\ status = "running"
    /\ last = "none"
    /\ calls = <<>>

\* run_app: the poll times out, no input
Tick == Loop(Local("tick", focus))

\* process_key: 'q'
Quit ==
    Loop(/\ status' = "quit"
         /\ last' = "q"
         /\ calls' = <<>>
         /\ UNCHANGED <<page, focus, general_state, proxies_state>>)

\* process_key, Pane::Menu
MenuJ == Loop(focus = "Menu" /\ next_menu("j"))

MenuK == Loop(focus = "Menu" /\ previous_menu("k"))

\* the enter input with the two panes swapped
MenuL_swapped ==
    Loop(/\ focus = "Menu"
         /\ IF route(page) = Some("Proxies") THEN app_fetch_data("l", page, "General")
            ELSE IF route(page) = Some("General") THEN app_fetch_data("l", page, "Proxies")
            ELSE Local("l", focus))

\* the enter input moving focus without the fetch
MenuL_nofetch ==
    Loop(/\ focus = "Menu"
         /\ IF route(page) = Some("Proxies") THEN Local("l", "Proxies")
            ELSE IF route(page) = Some("General") THEN Local("l", "General")
            ELSE Local("l", focus))

MenuL ==
    Loop(/\ focus = "Menu"
         /\ IF route(page) = Some("Proxies") THEN app_fetch_data("l", page, "Proxies")
            ELSE IF route(page) = Some("General") THEN app_fetch_data("l", page, "General")
            ELSE Local("l", focus))

MenuDigit(n) ==
    Loop(focus = "Menu" /\ navigate(<<"1", "2", "3", "4", "5">>[n], n - 1))

MenuOther == Loop(focus = "Menu" /\ Local("other", focus))

\* process_key, Pane::General
GeneralBack == Loop(focus = "General" /\ \E k \in {"Esc", "h"} : Local(k, "Menu"))

GeneralSpace ==
    Loop(/\ focus = "General"
         /\ \E patch \in WriteResults, res \in ConfigsResponses :
                \E r \in {select_mode(general_state, patch, res)} :
                   Step(" ", page, focus, r.st, proxies_state, r.panic, r.calls))

GeneralJ ==
    Loop(/\ focus = "General"
         /\ Step("j", page, focus, next_mode(general_state), proxies_state,
                 FALSE, <<>>))

GeneralK ==
    Loop(/\ focus = "General"
         /\ Step("k", page, focus, previous_mode(general_state), proxies_state,
                 FALSE, <<>>))

GeneralOther == Loop(focus = "General" /\ Local("other", focus))

\* the back input of the proxy pane refetching on its way out
ProxiesBack_refetch ==
    Loop(focus = "Proxies" /\ \E k \in {"Esc", "h"} : app_fetch_data(k, page, "Menu"))

\* process_key, Pane::Proxies
ProxiesBack == Loop(focus = "Proxies" /\ \E k \in {"Esc", "h"} : Local(k, "Menu"))

ProxiesSpace ==
    Loop(/\ focus = "Proxies"
         /\ \E put \in WriteResults, res \in ProxiesResponses :
                \E r \in {select_proxy(proxies_state, put, res)} :
                   Step(" ", page, focus, general_state, r.st, r.panic, r.calls))

\* A cursor operation of the proxies pane (op yields [st, panic])
ProxiesOp(key, op) ==
    Loop(/\ focus = "Proxies"
         /\ \E r \in {op} :
                Step(key, page, focus, general_state, r.st, r.panic, <<>>))

ProxiesJ == ProxiesOp("j", next_proxy(proxies_state))

ProxiesK == ProxiesOp("k", previous_proxy(proxies_state))

ProxiesH == ProxiesOp("H", previous_tab(proxies_state))

ProxiesL == ProxiesOp("L", next_tab(proxies_state))

ProxiesOther == Loop(focus = "Proxies" /\ Local("other", focus))

Next ==
    \/ Tick
    \/ Quit
    \/ MenuJ
    \/ MenuK
    \/ MenuL
    \/ \E n \in 1..5 : MenuDigit(n)
    \/ MenuOther
    \/ GeneralBack
    \/ GeneralSpace
    \/ GeneralJ
    \/ GeneralK
    \/ GeneralOther
    \/ ProxiesBack
    \/ ProxiesSpace
    \/ ProxiesJ
    \/ ProxiesK
    \/ ProxiesH
    \/ ProxiesL
    \/ ProxiesOther

Spec == Init /\ [][Next]_vars

\* The operator stays on the Proxies section: every input that reaches
\* ProxiesState (general_state and page play no part in its operations)
NextProxies ==
    \/ Tick
    \/ Quit
    \/ MenuDigit(2)
    \/ (page = 1 /\ MenuL)
    \/ ProxiesBack
    \/ ProxiesSpace
    \/ ProxiesJ
    \/ ProxiesK
    \/ ProxiesH
    \/ ProxiesL

SpecProxies == Init /\ [][NextProxies]_vars

\* The operator stays on the General section: every input that reaches
\* GeneralState
NextGeneral ==
    \/ Tick
    \/ Quit
    \/ MenuDigit(1)
    \/ (page = 0 /\ MenuL)
    \/ GeneralBack
    \/ GeneralSpace
    \/ GeneralJ
    \/ GeneralK

SpecGeneral == Init /\ [][NextGeneral]_vars

----------------------------------------------------------------------------
\* Vocabulary of the properties.  Ranks are stated by counting smaller names,
\* not through the sort the code performs.

\* The entries of collection m that carry a member list
Groups(m) == { p \in { m[k] : k \in DOMAIN m } : IsSome(p.all) }

\* The group at rank i (from 0) in name order
GroupAt(m, i) ==
    CHOOSE g \in Groups(m) : Cardinality({ h \in Groups(m) : h.name < g.name }) = i

\* The member at rank i (from 0) in name order of a list of distinct names
MemberAt(l, i) ==
    CHOOSE x \in { l[j] : j \in DOMAIN l } :
        Cardinality({ y \in { l[j] : j \in DOMAIN l } : y < x }) = i

\* Number of members of the group at rank i of collection m
MemberCountAt(m, i) == Len(Unwrap(GroupAt(m, i).all))

\* The last input was confirm on the proxy pane and it issued selectMember
ConfirmIssued ==
    /\ last = " "
    /\ Len(calls) = 2
    /\ calls[1].op = "PUT /proxies"

\* The last input did one fetch of the proxy collection, with success, and
\* nothing else
FetchedOk ==
    /\ status = "running"
    /\ Len(calls) = 1
    /\ calls[1].op = "GET /proxies"
    /\ IsSome(calls[1].res)

----------------------------------------------------------------------------
\* C1: after a confirm that issued selectMember and whose refetch succeeded,
\* memberCount (proxies_len) equals the number of members of the group that
\* sits at the resulting groupIndex (provider) in the new snapshot.
C1_MemberCountAfterConfirm ==
    (ConfirmIssued /\ status = "running" /\ IsSome(proxies_state.proxies))
        => LET m == Unwrap(proxies_state.proxies)
           IN /\ proxies_state.provider < Cardinality(Groups(m))
              /\ proxies_state.proxies_len = MemberCountAt(m, proxies_state.provider)

\* C2: after a successful fetch, from any prior state, the cursor is at
\* (0, 0), groupCount is the number of group entries and memberCount is the
\* member count of the first group in name order; a following nextGroup
\* moves to the second group in name order with that group's member count.
C2_FetchResetsToHead ==
    [][ /\ FetchedOk' =>
            (LET m == Unwrap(calls[1].res)
                 n == Cardinality(Groups(m))
             IN /\ proxies_state.proxies = calls[1].res
                /\ proxies_state.provider = 0
                /\ proxies_state.proxy_index = 0
                /\ proxies_state.providers_len = n
                /\ proxies_state.proxies_len =
                       IF n > 0 THEN MemberCountAt(m, 0) ELSE 0)'
        /\ (FetchedOk /\ last' = "L"
              /\ Cardinality(Groups(Unwrap(calls[1].res))) >= 2) =>
            /\ proxies_state'.provider = 1
            /\ proxies_state'.proxies_len = MemberCountAt(Unwrap(calls[1].res), 1)
      ]_vars

\* C3: in every reachable state each index is below its count when the
\* count is nonzero, and is 0 when the count is 0.
C3_IndexBounds ==
    LET s == proxies_state
    IN /\ s.providers_len > 0 => s.provider < s.providers_len
       /\ s.proxies_len > 0 => s.proxy_index < s.proxies_len
       /\ s.providers_len = 0 => s.provider = 0
       /\ s.proxies_len = 0 => s.proxy_index = 0

\* C3 witness: a confirm has put a non-head cursor back
C3_Witness ==
    /\ ConfirmIssued
    /\ status = "running"
    /\ proxies_state.provider = 1
    /\ proxies_state.proxy_index = 1

\* C4: a confirm whose refetch returns the snapshot it had before leaves the
\* cursor (groupIndex, memberIndex) where it was.
C4_ConfirmSnapBack ==
    [][ (ConfirmIssued' /\ status' = "running"
           /\ proxies_state'.proxies = proxies_state.proxies)
          => /\ proxies_state'.provider = proxies_state.provider
             /\ proxies_state'.proxy_index = proxies_state.proxy_index
      ]_vars

\* C5: a confirm that issues a mutation sends selectMember with the name of
\* the group at rank groupIndex and of the member at rank memberIndex, both
\* taken from the snapshot held before the call, and then refetches: one
\* PUT, then one GET of the proxies.
C5_ConfirmResolvesThenCalls ==
    [][ (last' = " " /\ focus = "Proxies" /\ calls' # <<>>)
          => LET m == Unwrap(proxies_state.proxies)
                 g == GroupAt(m, proxies_state.provider)
             IN /\ Len(calls') = 2
                /\ calls'[1].op = "PUT /proxies"
                /\ calls'[1].arg =
                       <<g.name, MemberAt(Unwrap(g.all), proxies_state.proxy_index)>>
                /\ calls'[2].op = "GET /proxies"
      ]_vars

\* C5 witness: a confirm sent the second group and the second member by name
C5_Witness == ConfirmIssued /\ calls[1].arg = <<2, 2>>

\* C6: after a failed fetch of the proxy collection, also inside confirm,
\* both counts and both indices are 0 and no snapshot is cached.
C6_FailedFetchClears ==
    (/\ calls # <<>>
     /\ calls[Len(calls)].op = "GET /proxies"
     /\ ~IsSome(calls[Len(calls)].res))
        => /\ proxies_state.proxies = None
           /\ proxies_state.providers_len = 0
           /\ proxies_state.proxies_len = 0
           /\ proxies_state.provider = 0
           /\ proxies_state.proxy_index = 0

\* C6 witness: the refetch inside a confirm failed
C6_Witness == ConfirmIssued /\ ~IsSome(calls[2].res)

\* One cursor operation, by name, applied to the state it works on
Apply(op, s) ==
    CASE op = "next_tab" -> next_tab(s).st
      [] op = "previous_tab" -> previous_tab(s).st
      [] op = "next_proxy" -> next_proxy(s).st
      [] op = "previous_proxy" -> previous_proxy(s).st
      [] op = "next_mode" -> next_mode(s)
      [] op = "previous_mode" -> previous_mode(s)
      [] op = "next_page" -> next_page(s)
      [] op = "previous_page" -> previous_page(s)

RECURSIVE Repeat(_, _, _)
Repeat(op, s, n) == IF n = 0 THEN s ELSE Repeat(op, Apply(op, s), n - 1)

\* C7: groupCount group steps, memberCount member steps, five section steps
\* and three mode steps, forward or backward, bring the index back.
C7_Wraparound ==
    status = "running" =>
        LET s == proxies_state
        IN /\ s.providers_len > 0 =>
                /\ Repeat("next_tab", s, s.providers_len).provider = s.provider
                /\ Repeat("previous_tab", s, s.providers_len).provider = s.provider
           /\ s.proxies_len > 0 =>
                /\ Repeat("next_proxy", s, s.proxies_len).proxy_index = s.proxy_index
                /\ Repeat("previous_proxy", s, s.proxies_len).proxy_index = s.proxy_index
           /\ Repeat("next_mode", general_state, 3).index = general_state.index
           /\ Repeat("previous_mode", general_state, 3).index = general_state.index
           /\ Repeat("next_page", page, 5) = page
           /\ Repeat("previous_page", page, 5) = page

\* C7 witness: every cursor is off its head position
C7_Witness ==
    /\ status = "running"
    /\ proxies_state.providers_len >= 2
    /\ proxies_state.proxies_len >= 2
    /\ proxies_state.provider > 0
    /\ proxies_state.proxy_index > 0
    /\ general_state.index > 0
    /\ page > 0

\* C8: a group step with groupCount > 0 leaves memberIndex = 0 and
\* memberCount equal to the member count of the group now at groupIndex in
\* the cached snapshot; with groupCount = 0 it leaves groupIndex = 0 and
\* changes nothing else.
C8_GroupStep ==
    [][ (last' \in {"H", "L"})
          => /\ UNCHANGED <<page, focus, general_state, status>>
             /\ calls' = <<>>
             /\ IF proxies_state.providers_len > 0
                THEN /\ proxies_state'.proxy_index = 0
                     /\ proxies_state'.proxies = proxies_state.proxies
                     /\ proxies_state'.providers_len = proxies_state.providers_len
                     /\ proxies_state'.proxies_len =
                            MemberCountAt(Unwrap(proxies_state.proxies),
                                          proxies_state'.provider)
                ELSE proxies_state' = [proxies_state EXCEPT !.provider = 0]
      ]_vars

\* C8 witness: nextGroup has moved to a second group with two members
C8_Witness ==
    /\ last = "L"
    /\ proxies_state.provider = 1
    /\ proxies_state.proxies_len = 2

\* C9: mode confirm issues setMode with the option at the local index
\* (global, rule, direct), then getMode, whatever setMode returned, and
\* currentMode is what that getMode returned (absent if it failed).
C9_ModeConfirm ==
    [][ (last' = " " /\ focus = "General")
          => /\ Len(calls') = 2
             /\ calls'[1].op = "PATCH /configs"
             /\ calls'[1].arg =
                    <<(<<"global", "rule", "direct">>)[general_state.index + 1]>>
             /\ calls'[2].op = "GET /configs"
             /\ general_state'.config = calls'[2].res
      ]_vars

\* C9 witness: setMode("direct") failed and the getMode after it returned
\* "global"
C9_Witness ==
    /\ last = " "
    /\ focus = "General"
    /\ Len(calls) = 2
    /\ calls[1].arg = <<"direct">>
    /\ calls[1].res = FALSE
    /\ general_state.config = Some([mode |-> "global"])

\* C10: no input, whatever the API answers, ends in a fatal condition.
C10_NoFatal == status # "crashed"

\* The last call of the last input was a fetch of the proxy collection that
\* succeeded
LastFetchOk ==
    /\ calls # <<>>
    /\ calls[Len(calls)].op = "GET /proxies"
    /\ IsSome(calls[Len(calls)].res)

\* C11: a successful fetch whose snapshot has no group entry completes with
\* both counts and both indices 0, whatever the previous groupCount was.
C11_EmptyFetchCompletes ==
    (LastFetchOk /\ Groups(Unwrap(calls[Len(calls)].res)) = {})
        => /\ status = "running"
           /\ proxies_state.providers_len = 0
           /\ proxies_state.proxies_len = 0
           /\ proxies_state.provider = 0
           /\ proxies_state.proxy_index = 0

\* C12: a successful fetch sets memberCount from the new first group only
\* when the groupCount held before it was nonzero; otherwise memberCount is
\* 0, even if the new first group has members.
C12_MemberCountFromPreviousCount ==
    [][ (LastFetchOk' /\ status' = "running")
          => proxies_state'.proxies_len =
                 IF proxies_state.providers_len # 0
                 THEN MemberCountAt(Unwrap(proxies_state'.proxies), 0)
                 ELSE 0
      ]_vars

\* C12 witness: a fetch left memberCount at 0 in front of a first group that
\* has members
C12_Witness ==
    /\ FetchedOk
    /\ proxies_state.proxies_len = 0
    /\ Groups(Unwrap(proxies_state.proxies)) # {}
    /\ MemberCountAt(Unwrap(proxies_state.proxies), 0) > 0

\* C13: with groupCount > 0 and memberCount > 0 the cursor names an existing
\* group and an existing member of it in the cached snapshot, so a confirm
\* from such a state always issues selectMember.
C13_CursorResolves ==
    [][ (/\ status = "running"
         /\ proxies_state.providers_len > 0
         /\ proxies_state.proxies_len > 0)
          => /\ IsSome(proxies_state.proxies)
             /\ proxies_state.provider <
                    Cardinality(Groups(Unwrap(proxies_state.proxies)))
             /\ proxies_state.proxy_index <
                    MemberCountAt(Unwrap(proxies_state.proxies),
                                  proxies_state.provider)
             /\ (last' = " " /\ focus = "Proxies") => calls' # <<>>
      ]_vars

\* C14: confirm on the proxy pane with groupCount = 0 or memberCount = 0
\* issues no call and changes nothing.
C14_ConfirmNoOp ==
    [][ (/\ last' = " "
         /\ focus = "Proxies"
         /\ (proxies_state.providers_len = 0 \/ proxies_state.proxies_len = 0))
          => /\ calls' = <<>>
             /\ UNCHANGED <<page, focus, general_state, proxies_state, status>>
      ]_vars

\* C14 witness: a confirm was pressed on a group list whose memberCount is 0
C14_Witness ==
    /\ last = " "
    /\ focus = "Proxies"
    /\ calls = <<>>
    /\ proxies_state.providers_len > 0
    /\ proxies_state.proxies_len = 0

\* The keys of the Menu that move the section cursor
NavKeys == {"j", "k", "1", "2", "3", "4", "5"}

\* C15: API calls are made only while handling a section navigation, an
\* enter input on General or Proxies, or a confirm; cursor keys, back,
\* unrecognized inputs and a tick without input issue none.
C15_CallsOnlyOnNavigateEnterConfirm ==
    [][ /\ calls' # <<>> =>
            \/ focus = "Menu" /\ last' \in NavKeys
            \/ focus = "Menu" /\ last' = "l" /\ page \in {0, 1}
            \/ focus # "Menu" /\ last' = " "
        /\ (\/ last' \in {"tick", "other", "Esc", "h", "H", "L"}
            \/ focus # "Menu" /\ last' \in {"j", "k"})
              => calls' = <<>>
      ]_vars

\* C15 witness: the enter input on Proxies issued a call
C15_Witness == calls # <<>> /\ last = "l" /\ focus = "Proxies"

\* The page a navigation key leads to
NavTarget(key, pg) ==
    CASE key = "j" -> (pg + 1) % 5
      [] key = "k" -> (pg + 4) % 5
      [] key = "1" -> 0
      [] key = "2" -> 1
      [] key = "3" -> 2
      [] key = "4" -> 3
      [] key = "5" -> 4

\* C16: every section transition sets sectionIndex to the wrapped target and
\* fetches the newly current section's submodel exactly once, and no other.
C16_NavigationFetchesNewSection ==
    [][ (focus = "Menu" /\ last' \in NavKeys)
          => /\ page' = NavTarget(last', page)
             /\ page' \in 0..4
             /\ focus' = "Menu"
             /\ IF page' = 0
                THEN /\ Len(calls') = 1
                     /\ calls'[1].op = "GET /configs"
                     /\ proxies_state' = proxies_state
                ELSE IF page' = 1
                THEN /\ Len(calls') = 1
                     /\ calls'[1].op = "GET /proxies"
                     /\ general_state' = general_state
                ELSE /\ calls' = <<>>
                     /\ proxies_state' = proxies_state
                     /\ general_state' = general_state
      ]_vars

\* C16 witness: the previous-section input arrived on Proxies and fetched
C16_Witness == last = "k" /\ focus = "Menu" /\ page = 1 /\ Len(calls) = 1

\* C17: enter moves focus to the General or Proxies pane exactly on those
\* sections and fetches that section; on the other sections focus stays at
\* Menu; back returns focus to Menu and changes nothing else.
C17_FocusTransitions ==
    [][ /\ (focus = "Menu" /\ last' = "l") =>
            /\ page' = page
            /\ IF page = 0
               THEN /\ focus' = "General"
                    /\ Len(calls') = 1
                    /\ calls'[1].op = "GET /configs"
                    /\ general_state'.config = calls'[1].res
               ELSE IF page = 1
               THEN /\ focus' = "Proxies"
                    /\ Len(calls') = 1
                    /\ calls'[1].op = "GET /proxies"
                    /\ proxies_state'.proxies = calls'[1].res
               ELSE /\ focus' = "Menu"
                    /\ calls' = <<>>
                    /\ UNCHANGED <<general_state, proxies_state, status>>
        /\ (focus # "Menu" /\ last' \in {"Esc", "h"}) =>
            /\ focus' = "Menu"
            /\ calls' = <<>>
            /\ UNCHANGED <<page, general_state, proxies_state, status>>
      ]_vars

\* C17 witness: enter on Proxies moved focus into the proxy pane
C17_Witness == last = "l" /\ focus = "Proxies" /\ Len(calls) = 1

\* C18: the mode cursor moves only on next/previous of the mode submodel;
\* fetch and confirm leave it alone, next/previous leave currentMode alone,
\* so the two may differ.
C18_ModeCursorIndependent ==
    [][ /\ general_state'.index # general_state.index
            => focus = "General" /\ last' \in {"j", "k"}
        /\ (focus = "General" /\ last' \in {"j", "k"})
            => general_state'.config = general_state.config
        /\ (last' \in {"1", "l", " "})
            => general_state'.index = general_state.index
      ]_vars

\* C18 witness: after a confirm the cursor is on "direct" while the server
\* reports "global"
C18_Witness ==
    /\ last = " "
    /\ focus = "General"
    /\ general_state.index = 2
    /\ general_state.config = Some([mode |-> "global"])

\* Focus on a pane implies that pane's section is current
FocusMatchesSection ==
    /\ focus = "General" => page = 0
    /\ focus = "Proxies" => page = 1

\* C19: pane focus is consistent with the current section in every reachable
\* state, and sectionIndex changes only while focus is Menu.
C19_FocusConsistent ==
    [][ /\ FocusMatchesSection
        /\ FocusMatchesSection'
        /\ page' # page => focus = "Menu"
      ]_vars

\* C19 witness: the proxy pane is focused and in use
C19_Witness == focus = "Proxies" /\ page = 1 /\ last = "L"

\* C20: while the process runs, groupCount is the number of entries of the
\* cached snapshot that carry a member list (0 without a snapshot), so the
\* draw and the group steps index inside the sorted group list.
C20_GroupCountMatchesSnapshot ==
    status # "crashed" =>
        /\ proxies_state.providers_len =
               IF IsSome(proxies_state.proxies)
               THEN Cardinality(Groups(Unwrap(proxies_state.proxies)))
               ELSE 0
        /\ ~render_panics
        /\ ~next_tab(proxies_state).panic
        /\ ~previous_tab(proxies_state).panic

\* C20 witness: a group step was taken on a snapshot of one group and one
\* leaf
C20_Witness ==
    /\ status = "running"
    /\ last \in {"H", "L"}
    /\ proxies_state.providers_len = 1
    /\ IsSome(proxies_state.proxies)
    /\ \E k \in DOMAIN Unwrap(proxies_state.proxies) :
           ~IsSome(Unwrap(proxies_state.proxies)[k].all)

====
